---- MODULE Spec2Model ----
(***************************************************************************)
(* Model of hooks/pre_gen_project.py: the Pydantic models MLPipeline and   *)
(* AgenticPipeline, their union PipelineUnion, and main(), which validates *)
(* every JSON file of the cookiecutter-config directory.                   *)
(*                                                                         *)
(* A JSON value (what json.load returns) is a record tagged by t:          *)
(*   [t |-> "str", s |-> <<chars>>]   a string, as its sequence of chars   *)
(*   [t |-> "int", n |-> k]           an integer                           *)
(*   [t |-> "list", items |-> <<..>>] an array                             *)
(*   [t |-> "dict", m |-> function]   an object: DOMAIN m is its key set   *)
(*   [t |-> "null"]                   null                                 *)
(* A character is a one-character string; "U+00E9" stands for the single   *)
(* non-ASCII letter e-acute. Files are readable UTF-8 text (the input      *)
(* format of the tool); a file whose text is not JSON is [t |-> "malformed"].*)
(***************************************************************************)
EXTENDS Integers, Sequences, FiniteSets, TLC

VARIABLES json_files, pc, f, data, stdout, ret, events

vars == <<json_files, pc, f, data, stdout, ret, events>>

\* ------------------------------------------------------------------------
\* JSON values
\* ------------------------------------------------------------------------
JStr(s) == [t |-> "str", s |-> s]
JInt(n) == [t |-> "int", n |-> n]
JList(xs) == [t |-> "list", items |-> xs]
JDict(m) == [t |-> "dict", m |-> m]
JNull == [t |-> "null"]
Malformed == [t |-> "malformed"]
NoData == [t |-> "none"]

\* ------------------------------------------------------------------------
\* Character classes of the regular expressions
\* ------------------------------------------------------------------------
AsciiLower == {"a", "b", "c", "d", "e", "f", "g", "h", "i", "j", "k", "l", "m",
               "n", "o", "p", "q", "r", "s", "t", "u", "v", "w", "x", "y", "z"}
AsciiUpper == {"A", "B", "C", "D", "E", "F", "G", "H", "I", "J", "K", "L", "M",
               "N", "O", "P", "Q", "R", "S", "T", "U", "V", "W", "X", "Y", "Z"}
AsciiDigit == {"0", "1", "2", "3", "4", "5", "6", "7", "8", "9"}

AsciiAlnum == AsciiLower \cup AsciiUpper \cup AsciiDigit
AsciiLowerDigit == AsciiLower \cup AsciiDigit

\* The open upper end of a repetition (the * of a pattern).
Unbounded == -1

\* ^[First][Mid]{lo,hi}[Last]$ matched against the whole string s.
MatchFirstMidLast(s, First, Mid, lo, hi, Last) ==
    /\ Len(s) >= 2
    /\ s[1] \in First
    /\ s[Len(s)] \in Last
    /\ \A k \in 2..(Len(s) - 1) : s[k] \in Mid
    /\ Len(s) - 2 >= lo
    /\ (hi = Unbounded \/ Len(s) - 2 <= hi)

\* ^[Cls]{lo,hi}$ matched against the whole string s.
MatchRepeat(s, Cls, lo, hi) ==
    /\ \A k \in 1..Len(s) : s[k] \in Cls
    /\ Len(s) >= lo
    /\ Len(s) <= hi

\* r"^[a-zA-Z0-9][a-zA-Z0-9-]*[a-zA-Z0-9]$"
NameMiddle == AsciiAlnum \cup {"-"}

NamePattern(s) ==
    MatchFirstMidLast(s, AsciiAlnum, NameMiddle, 0, Unbounded, AsciiAlnum)

\* r"^[^@]+@[^@]+\.[^@]+$": exactly one "@", not first, and after it a "."
\* with at least one character on each side.
EmailPattern(s) ==
    \E a \in 2..Len(s) :
        /\ s[a] = "@"
        /\ \A k \in 1..Len(s) : k # a => s[k] # "@"
        /\ \E d \in (a + 2)..(Len(s) - 1) : s[d] = "."

\* r"^[a-z][a-z0-9\-]{4,28}[a-z0-9]$"
ServiceAccountMiddle == AsciiLowerDigit \cup {"-"}

ServiceAccountPattern(s) ==
    MatchFirstMidLast(s, AsciiLower, ServiceAccountMiddle, 4, 28, AsciiLowerDigit)

\* r"^[a-z0-9][a-z0-9\-_.]{1,61}[a-z0-9]$"
BucketMiddle == AsciiLowerDigit \cup {"-", "_", "."}

BucketPattern(s) ==
    MatchFirstMidLast(s, AsciiLowerDigit, BucketMiddle, 1, 61, AsciiLowerDigit)

\* r"^[a-zA-Z0-9_]{1,1024}$"
DatasetChars == AsciiAlnum \cup {"_"}

DatasetPattern(s) ==
    MatchRepeat(s, DatasetChars, 1, 1024)

\* ------------------------------------------------------------------------
\* Pydantic field types
\* ------------------------------------------------------------------------
\* constr(min_length=, max_length=): a str within the lengths (its pattern=
\* is stated by each type below).
constr(v, min_length, max_length) ==
    /\ v.t = "str"
    /\ Len(v.s) >= min_length
    /\ Len(v.s) <= max_length

\* conint(ge=, le=)
conint(v, ge, le) ==
    /\ v.t = "int"
    /\ v.n >= ge
    /\ v.n <= le

\* Literal[...] of strings
Literal(v, allowed) ==
    /\ v.t = "str"
    /\ v.s \in allowed

\* Optional[X] lets None through.
IsNone(v) == v.t = "null"

\* NamePatternStr with min_length=2.
NamePatternStrMin2(v) == constr(v, 2, 30) /\ NamePattern(v.s)

NamePatternStr(v) == constr(v, 3, 30) /\ NamePattern(v.s)
EmailStr(v) == constr(v, 6, 254) /\ EmailPattern(v.s)
ServiceAccountName(v) == constr(v, 6, 30) /\ ServiceAccountPattern(v.s)
BucketName(v) == constr(v, 3, 63) /\ BucketPattern(v.s)
DatasetName(v) == constr(v, 1, 1024) /\ DatasetPattern(v.s)

\* ------------------------------------------------------------------------
\* class MLPipeline(BaseModel)
\* ------------------------------------------------------------------------
GPUTypes ==
    {<<"T", "4">>, <<"V", "1", "0", "0">>, <<"P", "1", "0", "0">>, <<"P", "4">>,
     <<"L", "4">>, <<"A", "1", "0", "0">>, <<"H", "1", "0", "0">>,
     <<"H", "2", "0", "0">>}

ModelTypes ==
    {<<"c", "l", "a", "s", "s", "i", "f", "i", "c", "a", "t", "i", "o", "n">>,
     <<"r", "e", "g", "r", "e", "s", "s", "i", "o", "n">>,
     <<"c", "l", "u", "s", "t", "e", "r", "i", "n", "g">>,
     <<"g", "e", "n", "-", "a", "i">>,
     <<"t", "i", "m", "e", "-", "s", "e", "r", "i", "e", "s">>}

Runtimes ==
    {<<"P", "y", "t", "h", "o", "n", "3", ".", "9">>,
     <<"P", "y", "t", "h", "o", "n", "3", ".", "1", "0">>,
     <<"A", "p", "a", "c", "h", "e", "B", "e", "a", "m">>,
     <<"R">>,
     <<"D", "a", "t", "a", "p", "r", "o", "c">>,
     <<"T", "F">>,
     <<"P", "y", "t", "o", "r", "c", "h">>}

\* constr(min_length=3, max_length=250)
DescriptionStr(v) == constr(v, 3, 250)
\* constr(min_length=3, max_length=200)
SourceStr(v) == constr(v, 3, 200)
\* Literal["classification", "regression", "clustering", "gen-ai", "time-series"]
ModelTypeLiteral(v) == Literal(v, ModelTypes)
\* Union[List[EmailStr], EmailStr]
EmailStrs(v) ==
    \/ v.t = "list" /\ \A k \in 1..Len(v.items) : EmailStr(v.items[k])
    \/ EmailStr(v)
\* Optional[Union[List[ServiceAccountName], ServiceAccountName]]
ServiceAccounts(v) ==
    \/ IsNone(v)
    \/ v.t = "list" /\ \A k \in 1..Len(v.items) : ServiceAccountName(v.items[k])
    \/ ServiceAccountName(v)
\* Union[List[constr(...)], constr(...)] of Sources
SourceStrs(v) ==
    \/ v.t = "list" /\ \A k \in 1..Len(v.items) : SourceStr(v.items[k])
    \/ SourceStr(v)
\* Union[List[Literal[...]], Literal[...]] of ModelType
ModelTypeLiterals(v) ==
    \/ v.t = "list" /\ \A k \in 1..Len(v.items) : ModelTypeLiteral(v.items[k])
    \/ ModelTypeLiteral(v)

\* The fields declared with Field(...): required.
MLRequired ==
    {"projectName", "applicationName", "projectDescription", "adminAccounts",
     "viewerAccounts", "ComputeResourcesCPU", "ComputeResourcesRAM",
     "ComputeResourcesStorage", "ComputeResourcesGPUCores",
     "ComputeResourcesGPUType", "Sources", "ModelType", "InferenceSchema",
     "SourceSizeEstimationKB", "ModelSizeEstimationKB", "runtimeBase"}

\* The fields declared with Field(None): optional.
MLOptional ==
    {"serviceAccountMaasName", "serviceAccountExplorationName",
     "serviceAccountDiscoveryName", "bucketMaasName", "bucketExplorationName",
     "bucketDiscoveryName", "datasetMaasName", "datasetExplorationName",
     "datasetDiscoveryName"}

\* Whether value v satisfies the annotation of field fld of MLPipeline.
MLField(fld, v) ==
    CASE fld = "projectName" -> NamePatternStr(v)
      [] fld = "applicationName" -> NamePatternStr(v)
      [] fld = "projectDescription" -> DescriptionStr(v)
      [] fld = "adminAccounts" -> EmailStrs(v)
      [] fld = "viewerAccounts" -> EmailStrs(v)
      [] fld = "serviceAccountMaasName" -> ServiceAccounts(v)
      [] fld = "serviceAccountExplorationName" -> ServiceAccounts(v)
      [] fld = "serviceAccountDiscoveryName" -> ServiceAccounts(v)
      [] fld = "bucketMaasName" -> IsNone(v) \/ BucketName(v)
      [] fld = "bucketExplorationName" -> IsNone(v) \/ BucketName(v)
      [] fld = "bucketDiscoveryName" -> IsNone(v) \/ BucketName(v)
      [] fld = "datasetMaasName" -> IsNone(v) \/ DatasetName(v)
      [] fld = "datasetExplorationName" -> IsNone(v) \/ DatasetName(v)
      [] fld = "datasetDiscoveryName" -> IsNone(v) \/ DatasetName(v)
      [] fld = "ComputeResourcesCPU" -> conint(v, 1, 96)
      [] fld = "ComputeResourcesRAM" -> conint(v, 1, 624)
      [] fld = "ComputeResourcesStorage" -> conint(v, 10, 65536)
      [] fld = "ComputeResourcesGPUCores" -> conint(v, 0, 128)
      [] fld = "ComputeResourcesGPUType" -> Literal(v, GPUTypes)
      [] fld = "Sources" -> SourceStrs(v)
      [] fld = "ModelType" -> ModelTypeLiterals(v)
      [] fld = "InferenceSchema" -> v.t = "dict"
      [] fld = "SourceSizeEstimationKB" -> conint(v, 1, 1000000000)
      [] fld = "ModelSizeEstimationKB" -> conint(v, 1, 1000000000)
      [] fld = "runtimeBase" -> Literal(v, Runtimes)

\* ------------------------------------------------------------------------
\* class AgenticPipeline(BaseModel)
\* ------------------------------------------------------------------------
\* AgenticPipeline with runtimeBase declared Field(None).
AgenticRequiredNoRuntime ==
    MLRequired \ {"ModelType", "ModelSizeEstimationKB", "runtimeBase"}

AgenticRequired ==
    {"projectName", "applicationName", "projectDescription", "adminAccounts",
     "viewerAccounts", "ComputeResourcesCPU", "ComputeResourcesRAM",
     "ComputeResourcesStorage", "ComputeResourcesGPUCores",
     "ComputeResourcesGPUType", "Sources", "InferenceSchema",
     "SourceSizeEstimationKB", "runtimeBase"}

AgenticOptional ==
    {"serviceAccountMaasName", "serviceAccountExplorationName",
     "serviceAccountDiscoveryName", "bucketMaasName", "bucketExplorationName",
     "bucketDiscoveryName", "datasetMaasName", "datasetExplorationName",
     "datasetDiscoveryName"}

\* AgenticPipeline with ComputeResourcesCPU: conint(ge=1, le=97).
AgenticFieldCPU97(fld, v) ==
    IF fld = "ComputeResourcesCPU" THEN conint(v, 1, 97) ELSE MLField(fld, v)

\* Whether value v satisfies the annotation of field fld of AgenticPipeline.
AgenticField(fld, v) ==
    CASE fld = "projectName" -> NamePatternStr(v)
      [] fld = "applicationName" -> NamePatternStr(v)
      [] fld = "projectDescription" -> DescriptionStr(v)
      [] fld = "adminAccounts" -> EmailStrs(v)
      [] fld = "viewerAccounts" -> EmailStrs(v)
      [] fld = "serviceAccountMaasName" -> ServiceAccounts(v)
      [] fld = "serviceAccountExplorationName" -> ServiceAccounts(v)
      [] fld = "serviceAccountDiscoveryName" -> ServiceAccounts(v)
      [] fld = "bucketMaasName" -> IsNone(v) \/ BucketName(v)
      [] fld = "bucketExplorationName" -> IsNone(v) \/ BucketName(v)
      [] fld = "bucketDiscoveryName" -> IsNone(v) \/ BucketName(v)
      [] fld = "datasetMaasName" -> IsNone(v) \/ DatasetName(v)
      [] fld = "datasetExplorationName" -> IsNone(v) \/ DatasetName(v)
      [] fld = "datasetDiscoveryName" -> IsNone(v) \/ DatasetName(v)
      [] fld = "ComputeResourcesCPU" -> conint(v, 1, 96)
      [] fld = "ComputeResourcesRAM" -> conint(v, 1, 624)
      [] fld = "ComputeResourcesStorage" -> conint(v, 10, 65536)
      [] fld = "ComputeResourcesGPUCores" -> conint(v, 0, 128)
      [] fld = "ComputeResourcesGPUType" -> Literal(v, GPUTypes)
      [] fld = "Sources" -> SourceStrs(v)
      [] fld = "InferenceSchema" -> v.t = "dict"
      [] fld = "SourceSizeEstimationKB" -> conint(v, 1, 1000000000)
      [] fld = "runtimeBase" -> Literal(v, Runtimes)

\* ------------------------------------------------------------------------
\* Validation: the errors of a ValidationError, each with the variant it
\* comes from, the field it names (loc) and its kind.
\* ------------------------------------------------------------------------
\* The loc of an error about the document as a whole (not a field of it).
ModelLoc == "<model>"

Error(variant, loc, type) == [variant |-> variant, loc |-> loc, type |-> type]

\* MLPipeline.model_validate(d): the errors of validating value d as an
\* MLPipeline. Keys of d that the class does not declare are ignored
\* (model_config is the default, extra = "ignore").
MLPipelineErrors(d) ==
    IF d.t # "dict"
    THEN {Error("MLPipeline", ModelLoc, "model_type")}
    ELSE {Error("MLPipeline", fld, "missing") : fld \in MLRequired \ DOMAIN d.m}
         \cup {Error("MLPipeline", fld, "invalid") :
                 fld \in {g \in (MLRequired \cup MLOptional) \cap DOMAIN d.m :
                            ~MLField(g, d.m[g])}}

\* AgenticPipeline with model_config extra = "forbid".
AgenticPipelineForbidExtra(d) ==
    IF d.t # "dict"
    THEN {Error("AgenticPipeline", ModelLoc, "model_type")}
    ELSE {Error("AgenticPipeline", fld, "missing") : fld \in AgenticRequired \ DOMAIN d.m}
         \cup {Error("AgenticPipeline", fld, "invalid") :
                 fld \in {g \in (AgenticRequired \cup AgenticOptional) \cap DOMAIN d.m :
                            ~AgenticField(g, d.m[g])}}
         \cup {Error("AgenticPipeline", key, "extra_forbidden") :
                 key \in DOMAIN d.m \ (AgenticRequired \cup AgenticOptional)}

\* AgenticPipeline.model_validate(d), likewise.
AgenticPipelineErrors(d) ==
    IF d.t # "dict"
    THEN {Error("AgenticPipeline", ModelLoc, "model_type")}
    ELSE {Error("AgenticPipeline", fld, "missing") : fld \in AgenticRequired \ DOMAIN d.m}
         \cup {Error("AgenticPipeline", fld, "invalid") :
                 fld \in {g \in (AgenticRequired \cup AgenticOptional) \cap DOMAIN d.m :
                            ~AgenticField(g, d.m[g])}}

\* PipelineUnion as RootModel[MLPipeline].
PipelineUnionOnlyML(d) == MLPipelineErrors(d)

\* PipelineUnion.model_validate(d): RootModel[Union[MLPipeline, AgenticPipeline]].
\* The union succeeds when either member does; when both fail, the
\* ValidationError carries the errors of both members. {} means no error.
PipelineUnionErrors(d) ==
    LET ml == MLPipelineErrors(d)
        agentic == AgenticPipelineErrors(d)
    IN IF ml = {} \/ agentic = {} THEN {} ELSE ml \cup agentic

\* ------------------------------------------------------------------------
\* The files main() may find: glob's result, in the order glob returns it.
\* ------------------------------------------------------------------------
\* How many files the directory holds at most (in the runs of several files).
MaxFiles == 3
\* How many keys of a document differ at most from a complete document.
MaxDeviations == 2
\* The longest of the short strings tried as a projectName or applicationName.
MaxNameLen == 3

Rep(c, n) == [k \in 1..n |-> c]

GoodEmail == JStr(<<"a", "@", "b", ".", "c", "o">>)

\* A document with every required field of MLPipeline, all of them valid,
\* and no optional field.
MLDocument ==
    [projectName |-> JStr(<<"a", "b", "c">>),
     applicationName |-> JStr(<<"a", "p", "p", "-", "1">>),
     projectDescription |-> JStr(<<"d", "e", "m", "o">>),
     adminAccounts |-> JList(<<GoodEmail>>),
     viewerAccounts |-> GoodEmail,
     ComputeResourcesCPU |-> JInt(4),
     ComputeResourcesRAM |-> JInt(16),
     ComputeResourcesStorage |-> JInt(100),
     ComputeResourcesGPUCores |-> JInt(0),
     ComputeResourcesGPUType |-> JStr(<<"T", "4">>),
     Sources |-> JStr(<<"g", "s", ":", "/", "/", "x">>),
     ModelType |-> JStr(<<"g", "e", "n", "-", "a", "i">>),
     InferenceSchema |-> JDict(<<>>),
     SourceSizeEstimationKB |-> JInt(1000),
     ModelSizeEstimationKB |-> JInt(1000),
     runtimeBase |-> JStr(<<"R">>)]

Without(m, keys) == [k \in DOMAIN m \ keys |-> m[k]]

With(m, key, v) == [k \in DOMAIN m \cup {key} |-> IF k = key THEN v ELSE m[k]]

\* The same document in the AgenticPipeline shape.
AgenticDocument == Without(MLDocument, {"ModelType", "ModelSizeEstimationKB"})

\* A key no model declares.
UndeclaredKey == "owner"

AllKeys == MLRequired \cup MLOptional \cup {UndeclaredKey}

\* One deviation from a complete document: a key removed or set to a value.
Remove(key) == [key |-> key, remove |-> TRUE, v |-> JNull]
Put(key, v) == [key |-> key, remove |-> FALSE, v |-> v]

BadEmail == JStr(<<"n", "o", "t", "-", "a", "n", "-", "e", "m", "a", "i", "l">>)

DeviationList ==
    <<Remove("projectName"), Put("projectName", JStr(<<"a", "b">>)),
      Remove("applicationName"), Put("applicationName", JInt(7)),
      Remove("projectDescription"),
      Remove("adminAccounts"), Put("adminAccounts", BadEmail),
      Remove("viewerAccounts"),
      Put("viewerAccounts", JList(<<GoodEmail, JStr(<<"a", "@", "b">>)>>)),
      Put("serviceAccountMaasName", JStr(<<"s", "a", "-", "m", "l", "1">>)),
      Put("serviceAccountExplorationName", JStr(<<"S", "A">>)),
      Put("bucketMaasName", JStr(<<"b", "k", "t">>)),
      Put("bucketDiscoveryName", JNull),
      Put("datasetExplorationName", JStr(<<"d", "-", "1">>)),
      Put("datasetDiscoveryName", JStr(<<>>)),
      Remove("ComputeResourcesCPU"), Put("ComputeResourcesCPU", JInt(0)),
      Remove("ComputeResourcesRAM"),
      Remove("ComputeResourcesStorage"),
      Remove("ComputeResourcesGPUCores"),
      Remove("ComputeResourcesGPUType"),
      Put("ComputeResourcesGPUType", JStr(<<"K", "8", "0">>)),
      Remove("Sources"), Put("Sources", JList(<<JStr(<<"g", "s">>)>>)),
      Remove("ModelType"),
      Put("ModelType", JStr(<<"i", "n", "v", "a", "l", "i", "d", "-", "t", "y", "p", "e">>)),
      Put("ModelType", JList(<<JStr(<<"r", "e", "g", "r", "e", "s", "s", "i", "o", "n">>)>>)),
      Remove("InferenceSchema"), Put("InferenceSchema", JList(<<>>)),
      Remove("SourceSizeEstimationKB"),
      Remove("ModelSizeEstimationKB"), Put("ModelSizeEstimationKB", JInt(0)),
      Put("ModelSizeEstimationKB", JInt(5)),
      Remove("runtimeBase"), Put("runtimeBase", JNull),
      Put(UndeclaredKey, JInt(1))>>

ApplyDeviation(m, dev) ==
    IF dev.remove THEN Without(m, {dev.key}) ELSE With(m, dev.key, dev.v)

\* A choice of at most MaxDeviations deviations: indices into DeviationList
\* in increasing order, 0 for none.
DeviationChoices ==
    {c \in [1..MaxDeviations -> 0..Len(DeviationList)] :
        \A k \in 2..MaxDeviations : c[k] = 0 \/ c[k - 1] < c[k]}

RECURSIVE ApplyChoice(_, _, _)
ApplyChoice(m, c, k) ==
    IF k > MaxDeviations THEN m
    ELSE ApplyChoice(IF c[k] = 0 THEN m ELSE ApplyDeviation(m, DeviationList[c[k]]),
                     c, k + 1)

\* The characters the names tried are made of.
NameChars == {"a", "Z", "5", "-", "_", "U+00E9"}

ShortStrings == UNION {[1..n -> NameChars] : n \in 0..MaxNameLen}

\* Strings around the maximum length of a name: 29 to 31 characters, their
\* first and last characters varied.
LongStrings ==
    {<<first>> \o Rep("a", n) \o <<last>> :
        first \in NameChars, last \in NameChars, n \in 27..29}

NameSamples == {JStr(s) : s \in ShortStrings \cup LongStrings}

ModelTypeNames ==
    ModelTypes \cup {<<"i", "n", "v", "a", "l", "i", "d", "-", "t", "y", "p", "e">>,
                     <<"G", "e", "n", "-", "a", "i">>, <<>>}

ModelTypeSamples ==
    {JStr(s) : s \in ModelTypeNames}
    \cup {JList(<<JStr(s)>>) : s \in ModelTypeNames}
    \cup {JList(<<JStr(s1), JStr(s2)>>) : s1 \in ModelTypeNames, s2 \in ModelTypeNames}

\* Strings of n characters "a" for the lengths ns.
StringsOfLen(ns) == {JStr(Rep("a", n)) : n \in ns}

EmailSamples ==
    {GoodEmail, BadEmail, JList(<<GoodEmail, GoodEmail>>), JList(<<GoodEmail, BadEmail>>),
     JStr(<<"a", "@", "b", ".", "c">>), JStr(<<"@", "b", "b", ".", "c", "o">>),
     JStr(<<"a", "@", ".", "c", "o", "m">>), JStr(<<"a", "@", "b", "c", "o", ".">>),
     JStr(<<"a", "@", "b", "@", "c", ".", "d">>), JStr(<<"a", "b", ".", "c", "@", "d">>),
     JList(<<JInt(1)>>)}

ServiceAccountSamples ==
    {JStr(<<"s", "a", "-", "m", "l", "1">>), JStr(<<"s", "a", "-", "m", "l">>),
     JStr(<<"1", "a", "-", "m", "l", "1">>), JStr(<<"s", "a", "-", "m", "l", "-">>),
     JStr(<<"s", "A", "-", "m", "l", "1">>), JStr(<<"s">> \o Rep("a", 29)),
     JStr(<<"s">> \o Rep("a", 30)),
     JList(<<JStr(<<"s", "a", "-", "m", "l", "1">>), JStr(<<"S", "A">>)>>),
     JList(<<JStr(<<"s", "a", "-", "m", "l", "1">>)>>)}

BucketSamples ==
    {JStr(<<"b", "k", "t">>), JStr(<<"b", "k">>), JStr(<<"b", ".", "_", "-", "1">>),
     JStr(<<"B", "k", "t">>), JStr(<<"b", "k", "-">>), JStr(Rep("b", 63)),
     JStr(Rep("b", 64)), JList(<<JStr(<<"b", "k", "t">>)>>)}

DatasetSamples ==
    {JStr(<<"d">>), JStr(<<"D", "_", "1">>), JStr(<<"d", "-", "1">>), JStr(<<>>),
     JList(<<JStr(<<"d">>)>>)}

\* Values of other kinds than the field's.
OtherKinds == {JNull, JInt(7), JStr(<<"x">>), JList(<<>>), JDict(<<>>)}

\* The values each key is tried with, at and around the limits of its field.
FieldSamples(key) ==
    OtherKinds \cup
    CASE key \in {"projectName", "applicationName"} -> NameSamples
      [] key = "projectDescription" -> StringsOfLen({2, 3, 250, 251})
      [] key \in {"adminAccounts", "viewerAccounts"} -> EmailSamples
      [] key \in {"serviceAccountMaasName", "serviceAccountExplorationName",
                  "serviceAccountDiscoveryName"} -> ServiceAccountSamples
      [] key \in {"bucketMaasName", "bucketExplorationName",
                  "bucketDiscoveryName"} -> BucketSamples
      [] key \in {"datasetMaasName", "datasetExplorationName",
                  "datasetDiscoveryName"} -> DatasetSamples
      [] key = "ComputeResourcesCPU" -> {JInt(n) : n \in -1..98}
      [] key = "ComputeResourcesRAM" -> {JInt(n) : n \in {0, 1, 624, 625}}
      [] key = "ComputeResourcesStorage" -> {JInt(n) : n \in {9, 10, 65536, 65537}}
      [] key = "ComputeResourcesGPUCores" -> {JInt(n) : n \in {-1, 0, 8, 9, 128, 129}}
      [] key = "ComputeResourcesGPUType" -> {JStr(s) : s \in GPUTypes \cup {<<"K", "8", "0">>, <<"t", "4">>}}
      [] key = "Sources" ->
           StringsOfLen({2, 3, 200, 201})
           \cup {JList(<<JStr(Rep("a", 3)), JStr(Rep("a", n))>>) : n \in {2, 200}}
      [] key = "ModelType" -> ModelTypeSamples
      [] key = "InferenceSchema" -> {JDict([k \in {"type"} |-> JStr(<<"o">>)])}
      [] key \in {"SourceSizeEstimationKB", "ModelSizeEstimationKB"} ->
           {JInt(n) : n \in {0, 1, 1000000000, 1000000001}}
      [] key = "runtimeBase" -> {JStr(s) : s \in Runtimes \cup {<<"r">>, <<"J", "a", "v", "a">>}}
      [] key = UndeclaredKey -> {}

\* The complete documents with one field taken from its samples.
FocusDocuments ==
    UNION {{With(m, key, v) : v \in FieldSamples(key)} :
             m \in {MLDocument, AgenticDocument}, key \in AllKeys}

\* File contents of the runs over several files: text that is not JSON, JSON
\* that is no object, and valid and invalid documents.
FewContents ==
    {Malformed,
     JList(<<>>),
     JDict(MLDocument),
     JDict(AgenticDocument),
     JDict(Without(MLDocument, {"projectName"})),
     JDict(With(AgenticDocument, "ComputeResourcesCPU", JInt(97)))}

\* ------------------------------------------------------------------------
\* main()
\* ------------------------------------------------------------------------
\* json.load(file): the value of the text, or JSONDecodeError.
JSONDecodeError == [t |-> "JSONDecodeError"]

json_load(text) == IF text.t = "malformed" THEN JSONDecodeError ELSE text

\* One line group written by print(); file is the index in json_files of the
\* file it names (0: none), errors the ValidationError's list (ve.json()).
Line(msg, file, errors) == [msg |-> msg, file |-> file, errors |-> errors]

Event(op, file) == [op |-> op, file |-> file]

\* json_files = glob.glob(pattern): main() is at the test of json_files.
Init ==
    /\ \/ \E n \in 0..MaxFiles : json_files \in [1..n -> FewContents]
       \/ \E m \in {MLDocument, AgenticDocument}, c \in DeviationChoices :
             json_files = <<JDict(ApplyChoice(m, c, 1))>>
       \/ \E m \in FocusDocuments : json_files = <<JDict(m)>>
    /\ pc = "start"
    /\ f = 0
    /\ data = NoData
    /\ stdout = <<>>
    /\ ret = <<>>
    /\ events = <<>>

\* main() without the test of json_files.
CheckFilesNoTest ==
    /\ pc = "start"
    /\ pc' = "for"
    /\ UNCHANGED <<json_files, f, data, stdout, ret, events>>

\* if not json_files: print the notice and return 0; else enter the loop.
CheckFiles ==
    /\ pc = "start"
    /\ IF json_files = <<>>
       THEN /\ stdout' = Append(stdout, Line("INFO_NO_FILES", 0, {}))
            /\ ret' = <<0>>
            /\ pc' = "done"
       ELSE /\ pc' = "for"
            /\ UNCHANGED <<stdout, ret>>
    /\ UNCHANGED <<json_files, f, data, events>>

\* The loop with `continue` in place of `return 1` after a JSONDecodeError.
LoadFileContinue ==
    /\ pc = "for"
    /\ f < Len(json_files)
    /\ f' = f + 1
    /\ IF json_load(json_files[f + 1]) = JSONDecodeError
       THEN /\ stdout' = Append(stdout, Line("ERROR_INVALID_JSON", f + 1, {}))
            /\ pc' = "for"
            /\ events' = events \o <<Event("open", f + 1),
                                     Event("JSONDecodeError", f + 1)>>
            /\ UNCHANGED <<data, ret>>
       ELSE /\ data' = json_load(json_files[f + 1])
            /\ pc' = "validate"
            /\ events' = events \o <<Event("open", f + 1), Event("load", f + 1)>>
            /\ UNCHANGED <<stdout, ret>>
    /\ UNCHANGED json_files

\* The loop without `return 1` after a JSONDecodeError: it goes on to validate.
LoadFileFallThrough ==
    /\ pc = "for"
    /\ f < Len(json_files)
    /\ f' = f + 1
    /\ pc' = "validate"
    /\ IF json_load(json_files[f + 1]) = JSONDecodeError
       THEN /\ stdout' = Append(stdout, Line("ERROR_INVALID_JSON", f + 1, {}))
            /\ events' = events \o <<Event("open", f + 1),
                                     Event("JSONDecodeError", f + 1)>>
            /\ UNCHANGED <<data, ret>>
       ELSE /\ data' = json_load(json_files[f + 1])
            /\ events' = events \o <<Event("open", f + 1), Event("load", f + 1)>>
            /\ UNCHANGED <<stdout, ret>>
    /\ UNCHANGED json_files

\* for f in json_files: open(f) and json.load(file); on JSONDecodeError print
\* the error and return 1.
LoadFile ==
    /\ pc = "for"
    /\ f < Len(json_files)
    /\ f' = f + 1
    /\ IF json_load(json_files[f + 1]) = JSONDecodeError
       THEN /\ stdout' = Append(stdout, Line("ERROR_INVALID_JSON", f + 1, {}))
            /\ ret' = <<1>>
            /\ pc' = "done"
            /\ data' = data
            /\ events' = events \o <<Event("open", f + 1),
                                     Event("JSONDecodeError", f + 1)>>
       ELSE /\ data' = json_load(json_files[f + 1])
            /\ pc' = "validate"
            /\ events' = events \o <<Event("open", f + 1), Event("load", f + 1)>>
            /\ UNCHANGED <<stdout, ret>>
    /\ UNCHANGED json_files

\* The loop without `return 1` after a ValidationError.
ValidateFileNoReturn ==
    /\ pc = "validate"
    /\ pc' = "for"
    /\ IF PipelineUnionErrors(data) # {}
       THEN /\ stdout' = Append(stdout, Line("ERROR_MODEL", f, PipelineUnionErrors(data)))
            /\ events' = events \o <<Event("model_validate", f),
                                     Event("ValidationError", f)>>
       ELSE /\ events' = events \o <<Event("model_validate", f),
                                     Event("validated", f)>>
            /\ UNCHANGED stdout
    /\ UNCHANGED <<json_files, f, data, ret>>

\* PipelineUnion.model_validate(data); on ValidationError print the error and
\* its details and return 1; else go on with the next file.
ValidateFile ==
    /\ pc = "validate"
    /\ IF PipelineUnionErrors(data) # {}
       THEN /\ stdout' = Append(stdout, Line("ERROR_MODEL", f, PipelineUnionErrors(data)))
            /\ ret' = <<1>>
            /\ pc' = "done"
            /\ events' = events \o <<Event("model_validate", f),
                                     Event("ValidationError", f)>>
       ELSE /\ pc' = "for"
            /\ events' = events \o <<Event("model_validate", f),
                                     Event("validated", f)>>
            /\ UNCHANGED <<stdout, ret>>
    /\ UNCHANGED <<json_files, f, data>>

\* The loop ended without a return: print the banner and return 0.
AllValid ==
    /\ pc = "for"
    /\ f = Len(json_files)
    /\ stdout' = Append(stdout, Line("ALL_VALID", 0, {}))
    /\ ret' = <<0>>
    /\ pc' = "done"
    /\ UNCHANGED <<json_files, f, data, events>>

Next == CheckFiles \/ LoadFile \/ ValidateFile \/ AllValid

Spec == Init /\ [][Next]_vars

\* ------------------------------------------------------------------------
\* Vocabulary of the properties
\* ------------------------------------------------------------------------
Files == 1..Len(json_files)

Happened(op, k) == \E p \in 1..Len(events) : events[p] = Event(op, k)

\* The file's text is JSON.
Parses(k) == json_files[k].t # "malformed"

\* The file parses and its value validates against the schema union.
Valid(k) == Parses(k) /\ PipelineUnionErrors(json_files[k]) = {}

\* model_validate was called on file k and returned / raised.
Accepted(k) == Happened("validated", k)
Rejected(k) == Happened("ValidationError", k)

\* File k holds a JSON object.
IsObject(k) == json_files[k].t = "dict"

ErrorLines == {p \in 1..Len(stdout) : stdout[p].msg \in {"ERROR_INVALID_JSON", "ERROR_MODEL"}}

\* The first file in enumeration order that is not valid (0: none).
FirstFailing ==
    IF \E k \in Files : ~Valid(k)
    THEN CHOOSE k \in Files : ~Valid(k) /\ \A j \in 1..(k - 1) : Valid(j)
    ELSE 0

\* C1: when main() has returned, it returned 0 or 1; 0 exactly when there is
\* no file or every file parses and validates, 1 exactly when some file fails
\* to parse or to validate; and nothing is returned before main() is done.
C1_ExitCode ==
    /\ (ret # <<>>) <=> (pc = "done")
    /\ pc = "done" =>
        /\ ret \in {<<0>>, <<1>>}
        /\ (ret = <<0>>) <=> (json_files = <<>> \/ \A k \in Files : Valid(k))
        /\ (ret = <<1>>) <=> (\E k \in Files : ~Valid(k))

\* A run of three files that returned 1 on an invalid document after a valid one.
C1_Witness ==
    /\ pc = "done"
    /\ ret = <<1>>
    /\ Len(json_files) = 3
    /\ Valid(1)
    /\ Parses(2) /\ ~Valid(2)

\* C2: files are handled one at a time in enumeration order; nothing is ever
\* opened, parsed or validated after the first failing file; a run that
\* returned 1 printed exactly one error report, naming the first failing file,
\* and no run prints more than one.
C2_FailFast ==
    /\ \A p \in 1..Len(events), q \in 1..Len(events) :
          p < q => events[p].file <= events[q].file
    /\ \A p \in 1..Len(events) :
          /\ events[p].file \in Files
          /\ \A j \in 1..(events[p].file - 1) : Valid(j)
    /\ Cardinality(ErrorLines) <= 1
    /\ ret = <<1>> =>
          /\ FirstFailing # 0
          /\ Len(stdout) = 1
          /\ ErrorLines = {1}
          /\ stdout[1].file = FirstFailing
          /\ f = FirstFailing
    /\ ErrorLines # {} => ret = <<1>>

\* A failing run whose first failing file is the second of three: the third
\* was never opened.
C2_Witness ==
    /\ ret = <<1>>
    /\ Len(json_files) = 3
    /\ FirstFailing = 2
    /\ ~Valid(3)
    /\ Happened("open", 2)
    /\ ~Happened("open", 3)

\* C3: with no JSON file, main() prints the 'no files found' notice and
\* nothing else, opens no file, and returns 0.
C3_NoFiles ==
    json_files = <<>> =>
        /\ events = <<>>
        /\ \A p \in 1..Len(stdout) : stdout[p].msg = "INFO_NO_FILES"
        /\ pc = "done" => (stdout = <<Line("INFO_NO_FILES", 0, {})>> /\ ret = <<0>>)
        /\ pc # "done" => (pc = "start" /\ stdout = <<>>)

C3_Witness == json_files = <<>> /\ pc = "done" /\ Len(stdout) = 1

\* The document has neither ModelType nor ModelSizeEstimationKB, every other
\* required field present and within its constraint, and every optional
\* field it has within its constraint (the constraints of the ML variant's
\* table).
AgenticShaped(d) ==
    /\ d.t = "dict"
    /\ "ModelType" \notin DOMAIN d.m
    /\ "ModelSizeEstimationKB" \notin DOMAIN d.m
    /\ \A fld \in MLRequired \ {"ModelType", "ModelSizeEstimationKB"} :
          fld \in DOMAIN d.m /\ MLField(fld, d.m[fld])
    /\ \A fld \in MLOptional \cap DOMAIN d.m : MLField(fld, d.m[fld])

\* C4: a document of the Agentic shape is rejected by MLPipeline alone, and
\* once main() has validated it, it was accepted.
C4_AgenticAccepted ==
    \A k \in Files :
        AgenticShaped(json_files[k]) =>
            /\ MLPipelineErrors(json_files[k]) # {}
            /\ ~Rejected(k)
            /\ Happened("model_validate", k) => Accepted(k)

\* An accepted Agentic-shaped document with an optional field and an
\* undeclared key.
C4_Witness ==
    \E k \in Files :
        /\ AgenticShaped(json_files[k])
        /\ Accepted(k)
        /\ "bucketMaasName" \in DOMAIN json_files[k].m
        /\ UndeclaredKey \in DOMAIN json_files[k].m

\* ModelType is a member of the set or a list of members.
ModelTypeAllowed(v) ==
    \/ v.t = "str" /\ v.s \in ModelTypes
    \/ v.t = "list" /\ \A p \in 1..Len(v.items) :
                          v.items[p].t = "str" /\ v.items[p].s \in ModelTypes

\* Every field of d but fld satisfies the ML variant.
OtherFieldsSatisfyML(d, fld) ==
    /\ d.t = "dict"
    /\ \A g \in MLRequired \ {fld} : g \in DOMAIN d.m /\ MLField(g, d.m[g])
    /\ \A g \in (MLOptional \ {fld}) \cap DOMAIN d.m : MLField(g, d.m[g])

\* C5: for a document whose other fields satisfy the ML variant and that has
\* a ModelType, validation of the file fails when ModelType is outside the
\* set and passes when it is a member or a list of members.
C5_ModelTypeChecked ==
    \A k \in Files :
        (/\ OtherFieldsSatisfyML(json_files[k], "ModelType")
         /\ "ModelType" \in DOMAIN json_files[k].m
         /\ Happened("model_validate", k)) =>
            IF ModelTypeAllowed(json_files[k].m["ModelType"])
            THEN Accepted(k)
            ELSE Rejected(k)

\* The required fields the claim lists.
ListedRequired ==
    {"projectName", "applicationName", "projectDescription", "adminAccounts",
     "viewerAccounts", "ComputeResourcesCPU", "ComputeResourcesRAM",
     "ComputeResourcesStorage", "ComputeResourcesGPUCores",
     "ComputeResourcesGPUType", "Sources", "ModelType", "InferenceSchema",
     "SourceSizeEstimationKB", "ModelSizeEstimationKB", "runtimeBase"}

\* Validation of file k failed, the run returned 1, and the violations
\* printed include one naming fld.
FailedNaming(k, fld) ==
    /\ Rejected(k)
    /\ ret = <<1>>
    /\ \E p \in 1..Len(stdout) :
          /\ stdout[p].msg = "ERROR_MODEL"
          /\ stdout[p].file = k
          /\ \E e \in stdout[p].errors : e.loc = fld

\* C6 as stated: whenever a listed required field is absent from a validated
\* document, validation failed with a violation naming that field.
C6_AnyRequiredMissing ==
    \A k \in Files : \A fld \in ListedRequired :
        (/\ IsObject(k)
         /\ fld \notin DOMAIN json_files[k].m
         /\ Happened("model_validate", k)) => FailedNaming(k, fld)

\* C6 amended: the same for a JSON object and the fields that both variants
\* require, that is all the listed ones but ModelType and ModelSizeEstimationKB.
C6_CommonRequiredMissing ==
    \A k \in Files : \A fld \in ListedRequired \ {"ModelType", "ModelSizeEstimationKB"} :
        (/\ IsObject(k)
         /\ fld \notin DOMAIN json_files[k].m
         /\ Happened("model_validate", k)) => FailedNaming(k, fld)

\* A rejected document that lacks runtimeBase and has every other field of
\* the complete document but one.
C6_Witness ==
    \E k \in Files :
        /\ IsObject(k)
        /\ "runtimeBase" \notin DOMAIN json_files[k].m
        /\ "bucketMaasName" \in DOMAIN json_files[k].m
        /\ FailedNaming(k, "runtimeBase")

\* The document d with key fld set to v is accepted by the schema union.
AcceptsWith(d, fld, v) == PipelineUnionErrors(JDict(With(d.m, fld, v))) = {}

LettersDigitsHyphen == AsciiLower \cup AsciiUpper \cup AsciiDigit \cup {"-"}

\* A string of 3 to 30 ASCII letters, digits and hyphens that neither starts
\* nor ends with a hyphen.
NameOK(v) ==
    /\ v.t = "str"
    /\ Len(v.s) >= 3
    /\ Len(v.s) <= 30
    /\ \A p \in 1..Len(v.s) : v.s[p] \in LettersDigitsHyphen
    /\ v.s[1] # "-"
    /\ v.s[Len(v.s)] # "-"

\* C7: in a document that is valid with a good name in its place, a
\* projectName (applicationName) is accepted exactly when it is such a string.
C7_NamePattern ==
    \A k \in Files : \A fld \in {"projectName", "applicationName"} :
        (/\ Happened("model_validate", k)
         /\ IsObject(k)
         /\ fld \in DOMAIN json_files[k].m
         /\ AcceptsWith(json_files[k], fld, JStr(<<"a", "b", "c">>))) =>
            /\ Accepted(k) <=> NameOK(json_files[k].m[fld])
            /\ Rejected(k) <=> ~NameOK(json_files[k].m[fld])

\* An accepted document whose projectName has 30 characters.
C7_Witness ==
    \E k \in Files :
        /\ IsObject(k)
        /\ "projectName" \in DOMAIN json_files[k].m
        /\ Accepted(k)
        /\ json_files[k].m["projectName"].t = "str"
        /\ Len(json_files[k].m["projectName"].s) = 30

\* C8: in a document that is valid with a good CPU count in its place, an
\* integer ComputeResourcesCPU is accepted exactly when it is within 1..96,
\* and each of the two variants reports the field exactly when it is not.
C8_CPURange ==
    \A k \in Files :
        (/\ Happened("model_validate", k)
         /\ IsObject(k)
         /\ "ComputeResourcesCPU" \in DOMAIN json_files[k].m
         /\ json_files[k].m["ComputeResourcesCPU"].t = "int"
         /\ AcceptsWith(json_files[k], "ComputeResourcesCPU", JInt(2))) =>
            LET n == json_files[k].m["ComputeResourcesCPU"].n
                inRange == 1 <= n /\ n <= 96
            IN /\ Accepted(k) <=> inRange
               /\ Rejected(k) <=> ~inRange
               /\ (Error("MLPipeline", "ComputeResourcesCPU", "invalid")
                     \in MLPipelineErrors(json_files[k])) <=> ~inRange
               /\ (Error("AgenticPipeline", "ComputeResourcesCPU", "invalid")
                     \in AgenticPipelineErrors(json_files[k])) <=> ~inRange

\* ComputeResourcesCPU = 96 accepted in a document of the ML shape.
C8_Witness ==
    \E k \in Files :
        /\ IsObject(k)
        /\ "ModelType" \in DOMAIN json_files[k].m
        /\ "ComputeResourcesCPU" \in DOMAIN json_files[k].m
        /\ json_files[k].m["ComputeResourcesCPU"] = JInt(96)
        /\ Accepted(k)

\* The state of file k in the file-processing state machine.
FileState(k) ==
    CASE Happened("JSONDecodeError", k) -> "PARSE_FAILED"
      [] Rejected(k) -> "VALIDATION_FAILED"
      [] Accepted(k) -> "VALIDATED"
      [] Happened("load", k) -> "PARSED"
      [] OTHER -> "PENDING"

Transitions ==
    {<<"PENDING", "PARSED">>, <<"PARSED", "VALIDATED">>,
     <<"PENDING", "PARSE_FAILED">>, <<"PARSED", "VALIDATION_FAILED">>}

\* Every step leaves each file in its state or takes one transition, and
\* handles at most one file.
C9_Step ==
    /\ \A k \in Files : FileState(k)' = FileState(k) \/ <<FileState(k), FileState(k)'>> \in Transitions
    /\ \A j \in Files, k \in Files :
          (FileState(j)' # FileState(j) /\ FileState(k)' # FileState(k)) => j = k
    /\ Len(events') >= Len(events)
    /\ \A p \in 1..Len(events) : events'[p] = events[p]

\* What the history says of each file at any time: it was opened at most
\* once, the schema union only ever saw a file that parsed, and a file that
\* does not parse got the parse-error message and never the schema-error one.
C9_History ==
    \A k \in Files :
        /\ Cardinality({p \in 1..Len(events) : events[p] = Event("open", k)}) <= 1
        /\ Cardinality({p \in 1..Len(events) : events[p] = Event("model_validate", k)}) <= 1
        /\ Happened("model_validate", k) => (Parses(k) /\ Happened("load", k))
        /\ ~(Happened("JSONDecodeError", k) /\ Happened("load", k))
        /\ ~(Accepted(k) /\ Rejected(k))
        /\ \A p \in 1..Len(stdout) :
              stdout[p].file = k =>
                  /\ stdout[p].msg = "ERROR_INVALID_JSON" <=> ~Parses(k)
                  /\ stdout[p].msg = "ERROR_MODEL" <=> Parses(k)
        /\ FileState(k) = "PARSE_FAILED" => Line("ERROR_INVALID_JSON", k, {}) = stdout[Len(stdout)]

ModelKeyValues ==
    {JStr(<<"i", "n", "v", "a", "l", "i", "d", "-", "t", "y", "p", "e">>),
     JStr(<<"g", "e", "n", "-", "a", "i">>), JInt(0), JInt(5), JNull, JList(<<>>)}

\* C10: every document MLPipeline accepts AgenticPipeline accepts; main()
\* accepts a file exactly when AgenticPipeline alone accepts it; and removing
\* or replacing ModelType or ModelSizeEstimationKB never changes that.
C10_UnionIsAgentic ==
    \A k \in Files :
        Happened("model_validate", k) =>
              /\ MLPipelineErrors(json_files[k]) = {} => AgenticPipelineErrors(json_files[k]) = {}
              /\ Accepted(k) <=> AgenticPipelineErrors(json_files[k]) = {}
              /\ Rejected(k) <=> AgenticPipelineErrors(json_files[k]) # {}
              /\ IsObject(k) =>
                    \A key \in {"ModelType", "ModelSizeEstimationKB"} :
                        /\ Accepted(k) <=>
                              PipelineUnionErrors(JDict(Without(json_files[k].m, {key}))) = {}
                        /\ \A v \in ModelKeyValues :
                              Accepted(k) <=> AcceptsWith(json_files[k], key, v)

\* An accepted document that MLPipeline accepts and that has an undeclared key,
\* and so does AgenticPipeline.
C10_Witness ==
    \E k \in Files :
        /\ Accepted(k)
        /\ MLPipelineErrors(json_files[k]) = {}
        /\ UndeclaredKey \in DOMAIN json_files[k].m

====
